---- MODULE Spec2Model ----
(***************************************************************************)
(* Bulk variable loader and event category filters of Utils/event_filter.py *)
(* and Utils/ID_events.py.                                                  *)
(*                                                                          *)
(* An archive file (.npz) is a bundle of named arrays.  An array is a       *)
(* record [shape, data]: data is the row-major list of the elements.        *)
(***************************************************************************)
EXTENDS Integers, Sequences, FiniteSets, TLC

VARIABLES pc, caller, folder_ok, discovered, num_files, file_selected,
          variable_names, file_list, data_list, data_dict, log,
          req, mask, masked, num_workers, completed, id_file, event_files

vars == <<pc, caller, folder_ok, discovered, num_files, file_selected,
          variable_names, file_list, data_list, data_dict, log,
          req, mask, masked, num_workers, completed, id_file, event_files>>

----------------------------------------------------------------------------
(* Bounds *)

\* Largest number of archive files a scanned directory holds.
MaxFiles == 3

\* Largest number of processors of the host (os.cpu_count()).
MaxCpus == 2

\* Largest number of archive files in a folder get_ID is called on.
MaxIDFiles == 2

----------------------------------------------------------------------------
(* Arrays *)

Scalar(v) == [shape |-> <<>>, data |-> <<v>>]

Vector(s) == [shape |-> <<Len(s)>>, data |-> s]

\* An array of r rows and c columns, its elements row after row.
Matrix(r, c, s) == [shape |-> <<r, c>>, data |-> s]

RECURSIVE Prod(_)
Prod(s) == IF s = <<>> THEN 1 ELSE Head(s) * Prod(Tail(s))

RECURSIVE Concat(_)
Concat(ss) == IF ss = <<>> THEN <<>> ELSE Head(ss) \o Concat(Tail(ss))

Range(s) == {s[i] : i \in DOMAIN s}

\* dtype=np.float32 keeps 24 bits of mantissa: integers up to 2^24 are exact,
\* those between 2^24 and 2^25 are rounded to a multiple of 2, ties to even.
Float32Exact == 16777216

Abs(v) == IF v < 0 THEN -v ELSE v

RoundEven2(m) ==
    IF m % 2 = 0 THEN m
    ELSE IF ((m - 1) \div 2) % 2 = 0 THEN m - 1 ELSE m + 1

ToFloat32(v) ==
    IF Abs(v) <= Float32Exact THEN v
    ELSE IF v < 0 THEN -RoundEven2(-v) ELSE RoundEven2(v)

----------------------------------------------------------------------------
(* The archive files on disk *)

NoArray == [shape |-> <<0>>, data |-> <<>>]

\* Readable archives: the fields each holds.  A and D hold two events, B one
\* (arrays of shape (2,) and (1,)); E, N and M hold one event as scalars;
\* M has no in_neutrino_pdg.  C cannot be opened.  The hits of A, B, D and E
\* are arrays of shape (1,2), (1,3), (2,1) and (1,2).
Archive ==
    [A |-> [run_number      |-> Vector(<<1, 1>>),
            event_id        |-> Vector(<<1, 2>>),
            is_cc           |-> Vector(<<1, 1>>),
            in_neutrino_pdg |-> Vector(<<14, 14>>),
            out_lepton_pdg  |-> Vector(<<13, 13>>),
            hits            |-> Matrix(1, 2, <<5, 6>>)],
     B |-> [run_number      |-> Vector(<<1>>),
            event_id        |-> Vector(<<3>>),
            is_cc           |-> Vector(<<0>>),
            in_neutrino_pdg |-> Vector(<<14>>),
            hits            |-> Matrix(1, 3, <<7, 8, 9>>)],
     D |-> [run_number      |-> Vector(<<3, 3>>),
            event_id        |-> Vector(<<1, 2>>),
            is_cc           |-> Vector(<<1, 0>>),
            in_neutrino_pdg |-> Vector(<<16, -16>>),
            hits            |-> Matrix(2, 1, <<1, 2>>)],
     E |-> [run_number      |-> Scalar(2),
            event_id        |-> Scalar(1),
            is_cc           |-> Scalar(1),
            in_neutrino_pdg |-> Scalar(-12),
            hits            |-> Matrix(1, 2, <<3, 4>>)],
     N |-> [run_number      |-> Scalar(2),
            event_id        |-> Scalar(16777217),
            is_cc           |-> Scalar(0),
            in_neutrino_pdg |-> Scalar(12)],
     M |-> [run_number      |-> Scalar(2),
            event_id        |-> Scalar(4),
            is_cc           |-> Scalar(1)]]

Readable == DOMAIN Archive

Files == Readable \cup {"C"}

\* The listings os.listdir can return: the files of a directory, without
\* repetition, in any order.
Listings ==
    {s \in UNION {[1..n -> Files] : n \in 0..MaxFiles} :
        \A i, j \in DOMAIN s : i # j => s[i] # s[j]}

\* The variable_names a call asks for.
ID4 == <<"run_number", "event_id", "is_cc", "in_neutrino_pdg">>

ID5 == <<"run_number", "event_id", "is_cc", "in_neutrino_pdg", "out_lepton_pdg">>

FieldLists == {ID4, <<"out_lepton_pdg", "in_neutrino_pdg">>, <<"hits", "event_id">>}

\* The explicit file lists a call passes as file_selected.
Selections == {<<>>, <<"A", "C">>, <<"E", "C", "N", "M">>}

None == [is_none |-> TRUE, value |-> 0]

Some(v) == [is_none |-> FALSE, value |-> v]

NoList == [is_none |-> TRUE, value |-> <<>>]

----------------------------------------------------------------------------
(* load_variables: one task of the pool *)

Absent == [present |-> FALSE, arr |-> NoArray]

Present(a) == [present |-> TRUE, arr |-> a]

\* Variant of the except branch: an empty array instead of None.
AllNoneAsEmptyArrays(names) == [v \in Range(names) |-> Present(NoArray)]

\* except branch: every requested variable is None.
AllNone(names) == [v \in Range(names) |-> Absent]

\* try branch: data[var] if var in data else None.
ReadFields(file, names) ==
    [v \in Range(names) |->
        IF v \in DOMAIN Archive[file] THEN Present(Archive[file][v]) ELSE Absent]

LoadFails(file) == file \notin Readable

load_variables(file, names) ==
    IF LoadFails(file) THEN AllNone(names) ELSE ReadFields(file, names)

LoadLog(file) ==
    IF LoadFails(file) THEN <<[msg |-> "Error loading", arg |-> file]>> ELSE <<>>

----------------------------------------------------------------------------
(* load_variables_from_npz *)

\* file_list[:num_files]
Slice(l, k) ==
    IF k >= 0
    THEN SubSeq(l, 1, IF k < Len(l) THEN k ELSE Len(l))
    ELSE SubSeq(l, 1, IF Len(l) + k > 0 THEN Len(l) + k ELSE 0)

\* Variant of the limit: "if num_files:", which takes a limit of 0 for no limit.
LimitIfTruthy(l, nf) ==
    IF ~nf.is_none /\ nf.value # 0 THEN Slice(l, nf.value) ELSE l

Limit(l, nf) == IF ~nf.is_none THEN Slice(l, nf.value) ELSE l

Select(l, sel) == IF ~sel.is_none THEN sel.value ELSE l

\* Variant of the collection: a file with any None variable is left out of
\* every column.
RECURSIVE CollectedWholeFiles(_, _)
CollectedWholeFiles(entries, var) ==
    IF entries = <<>> THEN <<>>
    ELSE (IF \A w \in DOMAIN Head(entries) : Head(entries)[w].present
          THEN <<Head(entries)[var].arr>> ELSE <<>>)
         \o CollectedWholeFiles(Tail(entries), var)

\* The list of the arrays of var in the files' results, in the order of the
\* results, the None ones left out.
RECURSIVE Collected(_, _)
Collected(entries, var) ==
    IF entries = <<>> THEN <<>>
    ELSE (IF Head(entries)[var].present THEN <<Head(entries)[var].arr>> ELSE <<>>)
         \o Collected(Tail(entries), var)

Shapes(arrs) == {arrs[i].shape : i \in DOMAIN arrs}

\* np.array(arrs, dtype=np.float32) of arrays of one shape.
Uniform(arrs) ==
    [kind  |-> "Uniform",
     shape |-> <<Len(arrs)>> \o arrs[1].shape,
     data  |-> LET flat == Concat([i \in DOMAIN arrs |-> arrs[i].data])
               IN  [i \in DOMAIN flat |-> ToFloat32(flat[i])],
     items |-> <<>>]

\* np.array(arrs, dtype=object): one element per array.
Ragged(arrs) ==
    [kind  |-> "Object",
     shape |-> <<Len(arrs)>>,
     data  |-> <<>>,
     items |-> arrs]

\* Variant of the conversion: the arrays of the files joined end to end
\* (np.concatenate), one row per event.
NormalizeConcatenate(arrs) ==
    [kind  |-> "Uniform",
     shape |-> <<Len(Concat([i \in DOMAIN arrs |-> arrs[i].data]))>>,
     data  |-> LET flat == Concat([i \in DOMAIN arrs |-> arrs[i].data])
               IN  [i \in DOMAIN flat |-> ToFloat32(flat[i])],
     items |-> <<>>]

\* np.array(arrs, dtype=object) raises ("could not broadcast input array")
\* when the arrays, of different shapes, all have the same first dimension:
\* numpy then takes that dimension for a dimension of the result.
ObjectArrayRaises(arrs) ==
    /\ Cardinality(Shapes(arrs)) > 1
    /\ \A i \in DOMAIN arrs : Len(arrs[i].shape) >= 1
    /\ \A i, j \in DOMAIN arrs : arrs[i].shape[1] = arrs[j].shape[1]

\* except branch of the conversion: data_dict[var] stays the Python list.
KeptList(arrs) ==
    [kind  |-> "List",
     shape |-> <<Len(arrs)>>,
     data  |-> <<>>,
     items |-> arrs]

Normalize(arrs) ==
    IF Cardinality(Shapes(arrs)) = 1 THEN Uniform(arrs)
    ELSE IF ObjectArrayRaises(arrs) THEN KeptList(arrs)
    ELSE Ragged(arrs)

\* Variant of the aggregation: keys only for the variables some file held.
AggregateContributed(entries, names) ==
    [v \in {w \in Range(names) : Collected(entries, w) # <<>>} |->
        Normalize(Collected(entries, v))]

Aggregate(entries, names) ==
    [v \in Range(names) |-> Normalize(Collected(entries, v))]

ColumnLen(col) == col.shape[1]

\* The messages of the except branch of the conversion, in the order of the
\* keys of data_dict.
RECURSIVE ConversionLog(_, _)
ConversionLog(entries, names) ==
    IF names = <<>> THEN <<>>
    ELSE (IF ObjectArrayRaises(Collected(entries, Head(names)))
          THEN <<[msg |-> "Error processing variable", arg |-> Head(names)]>>
          ELSE <<>>)
         \o ConversionLog(entries, Tail(names))

----------------------------------------------------------------------------
(* Boolean masks over the columns of a table *)

\* A shape of rank 0, 1 or 2 aligned to the right on two dimensions.
Pad2(s) ==
    IF Len(s) = 0 THEN <<1, 1>> ELSE IF Len(s) = 1 THEN <<1, s[1]>> ELSE s

BDim(a, b) == IF a = 1 THEN b ELSE a

Broadcastable(s, t) ==
    \A i \in 1..2 : Pad2(s)[i] = Pad2(t)[i] \/ Pad2(s)[i] = 1 \/ Pad2(t)[i] = 1

BShape(s, t) ==
    LET r == IF Len(s) > Len(t) THEN Len(s) ELSE Len(t)
        p == <<BDim(Pad2(s)[1], Pad2(t)[1]), BDim(Pad2(s)[2], Pad2(t)[2])>>
    IN  SubSeq(p, 3 - r, 2)

\* Element (i, j) of the mask a stretched to a larger shape.
At(a, i, j) ==
    LET ps == Pad2(a.shape)
    IN  a.data[((IF ps[1] = 1 THEN 1 ELSE i) - 1) * ps[2]
               + (IF ps[2] = 1 THEN 1 ELSE j)]

\* The comparison or the combination could not be evaluated.
NoMask == [ok |-> FALSE, shape |-> <<>>, data |-> <<>>]

Combine(a, b, conj) ==
    IF ~a.ok \/ ~b.ok THEN NoMask
    ELSE IF ~Broadcastable(a.shape, b.shape) THEN NoMask
    ELSE LET sh == BShape(a.shape, b.shape)
             P  == Pad2(sh)
         IN  [ok    |-> TRUE,
              shape |-> sh,
              data  |-> [p \in 1..Prod(sh) |->
                            LET i == ((p - 1) \div P[2]) + 1
                                j == ((p - 1) % P[2]) + 1
                            IN  IF conj THEN At(a, i, j) /\ At(b, i, j)
                                        ELSE At(a, i, j) \/ At(b, i, j)]]

\* a & b
And(a, b) == Combine(a, b, TRUE)

\* a | b
Or(a, b) == Combine(a, b, FALSE)

\* column == v, element by element.  The elements of an object column are
\* arrays: the comparison of one of them has a truth value only if it holds a
\* single value.
Eq(col, v) ==
    IF col.kind = "Uniform"
    THEN [ok |-> TRUE, shape |-> col.shape,
          data |-> [p \in DOMAIN col.data |-> col.data[p] = v]]
    ELSE IF \A i \in DOMAIN col.items : Prod(col.items[i].shape) = 1
    THEN [ok |-> TRUE, shape |-> col.shape,
          data |-> [i \in DOMAIN col.items |-> col.items[i].data[1] = v]]
    ELSE NoMask

\* The positions of a list of booleans that hold TRUE, in increasing order.
RECURSIVE TruePositions(_, _)
TruePositions(b, from) ==
    IF from > Len(b) THEN <<>>
    ELSE (IF b[from] THEN <<from>> ELSE <<>>) \o TruePositions(b, from + 1)

NoSelection ==
    [ok |-> FALSE, kind |-> "Uniform", shape |-> <<>>, data |-> <<>>, items |-> <<>>]

EmptySelection ==
    [ok |-> TRUE, kind |-> "Uniform", shape |-> <<0>>, data |-> <<>>, items |-> <<>>]

\* A boolean index must have the shape of the leading dimensions it indexes.
Indexable(col, m) ==
    /\ m.ok
    /\ Len(m.shape) <= Len(col.shape)
    /\ \A i \in DOMAIN m.shape : m.shape[i] = col.shape[i]

\* column[m]
Index(col, m) ==
    IF ~Indexable(col, m) THEN NoSelection
    ELSE LET pos   == TruePositions(m.data, 1)
             rest  == SubSeq(col.shape, Len(m.shape) + 1, Len(col.shape))
             inner == Prod(rest)
         IN  IF col.kind = "Uniform"
             THEN [ok    |-> TRUE,
                   kind  |-> "Uniform",
                   shape |-> <<Len(pos)>> \o rest,
                   data  |-> Concat([k \in DOMAIN pos |->
                                SubSeq(col.data, (pos[k] - 1) * inner + 1,
                                       pos[k] * inner)]),
                   items |-> <<>>]
             ELSE [ok    |-> TRUE,
                   kind  |-> "Object",
                   shape |-> <<Len(pos)>>,
                   data  |-> <<>>,
                   items |-> [k \in DOMAIN pos |-> col.items[pos[k]]]]

----------------------------------------------------------------------------
(* create_masked_dict *)

\* PDG codes of the three neutrino flavors.
NuE == 12

NuMu == 14

NuTau == 16

\* Variant of the flavor test: the antiparticle code is not accepted.
FlavorParticleOnly(col, code) == Eq(col, code)

Flavor(col, code) == Or(Eq(col, code), Eq(col, -code))

HasKeys(table, keys) == keys \subseteq DOMAIN table

\* Variant of the usage check: only three flavors at a time are refused.
TooManyFlavorsOffByOne(r) == r.is_nu_e + r.is_nu_mu + r.is_nu_tau > 2

TooManyFlavors(r) == r.is_nu_e + r.is_nu_mu + r.is_nu_tau > 1

NoFlavor(r) == r.is_nu_e = 0 /\ r.is_nu_mu = 0 /\ r.is_nu_tau = 0

\* The code of the flavor the if/elif chain of the charged-current branch
\* stops at, 0 when it reaches the else.
BranchFlavor(r) ==
    IF r.is_nu_e # 0 THEN NuE
    ELSE IF r.is_nu_mu # 0 THEN NuMu
    ELSE IF r.is_nu_tau # 0 THEN NuTau
    ELSE 0

\* The columns the mask of a request reads.
MaskKeys(r) ==
    IF r.is_cc = 1 /\ BranchFlavor(r) # 0 THEN {"is_cc", "in_neutrino_pdg"}
    ELSE {"is_cc"}

\* Variant of the mask: the flavor branches do not test is_cc.
MaskOfFlavorOnly(table, r) ==
    IF ~HasKeys(table, MaskKeys(r)) THEN NoMask
    ELSE IF r.is_cc = 1
    THEN IF BranchFlavor(r) # 0
         THEN Flavor(table["in_neutrino_pdg"], BranchFlavor(r))
         ELSE Eq(table["is_cc"], 1)
    ELSE Eq(table["is_cc"], 0)

MaskOf(table, r) ==
    IF ~HasKeys(table, MaskKeys(r)) THEN NoMask
    ELSE IF r.is_cc = 1
    THEN IF BranchFlavor(r) # 0
         THEN And(Eq(table["is_cc"], 1),
                  Flavor(table["in_neutrino_pdg"], BranchFlavor(r)))
         ELSE Eq(table["is_cc"], 1)
    ELSE Eq(table["is_cc"], 0)

UsageLog(r) ==
    (IF r.is_cc = 1 /\ NoFlavor(r)
     THEN <<[msg |-> "Error: When is_cc is 1, at least one of the neutrino types should be 1.",
             arg |-> ""]>>
     ELSE <<>>)
    \o
    (IF TooManyFlavors(r)
     THEN <<[msg |-> "Error: Only one neutrino type can be selected.", arg |-> ""]>>
     ELSE <<>>)

NoResult ==
    [outcome |-> "none", run_number |-> NoSelection, event_id |-> NoSelection]

EmptyDict ==
    [outcome |-> "empty_dict", run_number |-> NoSelection, event_id |-> NoSelection]

Raised ==
    [outcome |-> "raised", run_number |-> NoSelection, event_id |-> NoSelection]

\* The dictionary of the two selected columns; an exception if the mask could
\* not be evaluated, a column is missing or the mask does not fit a column.
Selected(table, m) ==
    IF ~m.ok \/ ~HasKeys(table, {"run_number", "event_id"}) THEN Raised
    ELSE IF ~Indexable(table["run_number"], m) THEN Raised
    ELSE IF ~Indexable(table["event_id"], m) THEN Raised
    ELSE [outcome    |-> "dict",
          run_number |-> Index(table["run_number"], m),
          event_id   |-> Index(table["event_id"], m)]

\* An element-wise comparison of an object column that has no truth value
\* raises in current numpy; older releases returned the scalar False, which
\* selects nothing.
Ambiguous(table, keys) ==
    /\ HasKeys(table, keys)
    /\ \E k \in keys : ~Eq(table[k], 0).ok

SelectsNothing ==
    [outcome |-> "dict", run_number |-> EmptySelection, event_id |-> EmptySelection]

create_masked_dict(table, r) ==
    IF TooManyFlavors(r) THEN {EmptyDict}
    ELSE IF Ambiguous(table, MaskKeys(r)) THEN {Raised, SelectsNothing}
    ELSE {Selected(table, MaskOf(table, r))}

----------------------------------------------------------------------------
(* get_ID *)

\* event_filter of get_ID: the three flavor flags are not read.
IDMask(table, r) ==
    And(Eq(table["is_cc"], r.is_cc),
        Or(Or(Flavor(table["in_neutrino_pdg"], NuE),
              Flavor(table["in_neutrino_pdg"], NuMu)),
           Flavor(table["in_neutrino_pdg"], NuTau)))

get_ID(table, r) ==
    IF Ambiguous(table, {"is_cc", "in_neutrino_pdg"}) THEN {Raised, SelectsNothing}
    ELSE {Selected(table, IDMask(table, r))}

----------------------------------------------------------------------------
(* save_ID_event and get_event_ID: the file id_events.txt *)

\* The decimal digits of a natural number.
RECURSIVE Digits(_)
Digits(n) == IF n < 10 THEN <<n>> ELSE Digits(n \div 10) \o <<n % 10>>

\* str(n) of an integer, as the csv writer puts it in a row.
Str(n) == [neg |-> n < 0, digits |-> Digits(Abs(n))]

RECURSIVE DigitsValue(_)
DigitsValue(d) ==
    IF d = <<>> THEN 0
    ELSE 10 * DigitsValue(SubSeq(d, 1, Len(d) - 1)) + d[Len(d)]

\* int(text)
ParseInt(t) == IF t.neg THEN 0 - DigitsValue(t.digits) ELSE DigitsValue(t.digits)

\* int("000"), the cell of a category that has no event left.
Placeholder == ParseInt([neg |-> FALSE, digits |-> <<0, 0, 0>>])

\* The row of names save_ID_event writes first.
Header == <<"Run_e", "EventID_e", "Run_mu", "EventID_mu", "Run_tau", "EventID_tau">>

\* The four selections of save_ID_event: for each category run_number[m] and
\* event_id[m]; only the codes 12, 14 and 16 are charged-current categories.
Classified(table) ==
    LET cc_true  == Eq(table["is_cc"], 1)
        cc_false == Eq(table["is_cc"], 0)
        nu_tau   == Eq(table["in_neutrino_pdg"], NuTau)
        nu_mu    == Eq(table["in_neutrino_pdg"], NuMu)
        nu_e     == Eq(table["in_neutrino_pdg"], NuE)
        Of(m)    == [run   |-> Index(table["run_number"], m),
                     event |-> Index(table["event_id"], m)]
    IN  [NC  |-> Of(cc_false),
         e   |-> Of(And(cc_true, nu_e)),
         mu  |-> Of(And(cc_true, nu_mu)),
         tau |-> Of(And(cc_true, nu_tau))]

\* len(selection)
SelLen(sel) == sel.shape[1]

\* int(selection[i]) is defined for an element that holds a single value.
Single(sel, i) ==
    IF sel.kind = "Uniform"
    THEN Prod(SubSeq(sel.shape, 2, Len(sel.shape))) = 1
    ELSE Prod(sel.items[i].shape) = 1

ElemAt(sel, i) ==
    IF sel.kind = "Uniform" THEN sel.data[i] ELSE sel.items[i].data[1]

\* selection[i] if i < len(selection) else "000"
Cell(sel, i) == IF i <= SelLen(sel) THEN ElemAt(sel, i) ELSE Placeholder

Max(S) == CHOOSE x \in S : \A y \in S : y <= x

\* The columns of a row, in the order of the writer: e, mu, tau, NC.
RowSelections(c) ==
    <<c.e.run, c.e.event, c.mu.run, c.mu.event,
      c.tau.run, c.tau.event, c.NC.run, c.NC.event>>

NoFile == [exists |-> FALSE, lines |-> <<>>]

IDFile(lines) == [exists |-> TRUE, lines |-> lines]

\* The outcomes of save_ID_event on a table: an exception before the file is
\* opened if a mask cannot be evaluated or does not fit a column; else the
\* header and one row of eight integers per index, up to the first row that
\* has an element int() does not accept.
save_ID_event(table) ==
    IF Ambiguous(table, {"is_cc", "in_neutrino_pdg"})
    THEN {[outcome |-> "raised", file |-> NoFile],
          [outcome |-> "written", file |-> IDFile(<<Header>>)]}
    ELSE LET c    == Classified(table)
             sels == RowSelections(c)
         IN  IF \E k \in DOMAIN sels : ~sels[k].ok
             THEN {[outcome |-> "raised", file |-> NoFile]}
             ELSE LET max_length == Max({SelLen(c.e.run), SelLen(c.mu.run),
                                         SelLen(c.tau.run), SelLen(c.NC.event)})
                      Bad(i) == \E k \in DOMAIN sels :
                                    i <= SelLen(sels[k]) /\ ~Single(sels[k], i)
                      good   == IF \E i \in 1..max_length : Bad(i)
                                THEN Max({0} \cup {i \in 1..max_length :
                                                     \A j \in 1..i : ~Bad(j)})
                                ELSE max_length
                      Row(i) == [k \in DOMAIN sels |-> Str(Cell(sels[k], i))]
                  IN  {[outcome |-> IF good = max_length THEN "written" ELSE "raised",
                        file    |-> IDFile(<<Header>> \o [i \in 1..good |-> Row(i)])]}

neutrino_map == [NC |-> 0, e |-> 1, mu |-> 2, tau |-> 3]

neutrino_type(r) ==
    IF r.is_cc # 0 /\ r.is_nu_e # 0 THEN "e"
    ELSE IF r.is_cc # 0 /\ r.is_nu_mu # 0 THEN "mu"
    ELSE IF r.is_cc # 0 /\ r.is_nu_tau # 0 THEN "tau"
    ELSE "NC"

\* f"{run}_{event}.npz"
FileName(run, event) == <<Str(run), "_", Str(event), ".npz">>

\* get_event_ID on the lines of the file: the header is skipped, the rows of
\* eight fields are read as integers, the pair of columns at 2 * neutrino_map
\* is taken and the rows whose first column of the pair is 0 are left out.
get_event_ID(r, lines) ==
    LET rows      == SelectSeq(Tail(lines), LAMBDA parts : Len(parts) = 8)
        events_id == [k \in DOMAIN rows |-> [j \in 1..8 |-> ParseInt(rows[k][j])]]
        index     == neutrino_map[neutrino_type(r)] * 2
        kept      == SelectSeq(events_id, LAMBDA event : event[index + 1] # 0)
    IN  [k \in DOMAIN kept |-> FileName(kept[k][index + 1], kept[k][index + 2])]

----------------------------------------------------------------------------
(* State machine *)

NoRequest == [is_cc |-> 0, is_nu_e |-> 0, is_nu_mu |-> 0, is_nu_tau |-> 0]

Requests == [is_cc : {0, 1}, is_nu_e : {0, 1}, is_nu_mu : {0, 1}, is_nu_tau : {0, 1}]

Limits == {None} \cup {Some(k) : k \in 0..MaxFiles}

\* num_workers of a call: one worker, or the default.
DefaultWorkers == 28

WorkerArgs == {1, DefaultWorkers}

CpuCounts == 1..MaxCpus

\* min(num_workers, os.cpu_count() or 1)
PoolSize(requested, cpus) == IF requested < cpus THEN requested ELSE cpus

Pending(names) == [done |-> FALSE, entry |-> AllNone(names)]

Init ==
    /\ pc = "idle"
    /\ caller = "none"
    /\ folder_ok = TRUE
    /\ discovered = <<>>
    /\ num_files = None
    /\ file_selected = NoList
    /\ variable_names = <<>>
    /\ file_list = <<>>
    /\ data_list = <<>>
    /\ data_dict = <<>>
    /\ log = <<>>
    /\ req = NoRequest
    /\ mask = NoMask
    /\ masked = NoResult
    /\ num_workers = 0
    /\ completed = <<>>
    /\ id_file = NoFile
    /\ event_files = <<>>

\* Lines 29-40 of load_variables_from_npz in a folder that can be listed: the
\* scan, the limit, the explicit list, one task per file.
Dispatch(who, listing, names, nf, sel, r, workers) ==
    /\ pc = "idle"
    /\ pc' = "loading"
    /\ caller' = who
    /\ folder_ok' = TRUE
    /\ discovered' = listing
    /\ num_files' = nf
    /\ file_selected' = sel
    /\ variable_names' = names
    /\ file_list' = Select(Limit(listing, nf), sel)
    /\ data_list' = [i \in 1..Len(file_list') |-> Pending(names)]
    /\ req' = r
    /\ num_workers' = workers
    /\ UNCHANGED <<data_dict, log, mask, masked, completed,
                   id_file, event_files>>

\* os.listdir raises on a folder that does not exist, whatever the other
\* arguments are.
ListdirRaises(who, names, nf, sel, r) ==
    /\ pc = "idle"
    /\ pc' = "raised"
    /\ caller' = who
    /\ folder_ok' = FALSE
    /\ num_files' = nf
    /\ file_selected' = sel
    /\ variable_names' = names
    /\ req' = r
    /\ UNCHANGED <<discovered, file_list, data_list, data_dict, log, mask, masked,
                   num_workers, completed,
                   id_file, event_files>>

CallLoad ==
    /\ pc = "idle"
    /\ \E listing \in Listings, names \in FieldLists, nf \in Limits,
          w \in WorkerArgs, cpus \in CpuCounts :
        Dispatch("load", listing, names, nf, NoList, NoRequest, PoolSize(w, cpus))

CallLoadSelected ==
    /\ pc = "idle"
    /\ \E listing \in {l \in Listings : Len(l) <= 1}, names \in FieldLists,
       nf \in {None, Some(1)}, s \in Selections, cpus \in CpuCounts :
        Dispatch("load", listing, names, nf, Some(s), NoRequest,
                 PoolSize(DefaultWorkers, cpus))

CallLoadMissingFolder ==
    /\ pc = "idle"
    /\ \E names \in FieldLists, nf \in {None, Some(1)},
       sel \in {NoList} \cup {Some(s) : s \in Selections} :
        ListdirRaises("load", names, nf, sel, NoRequest)

CallGetID ==
    /\ pc = "idle"
    /\ \E listing \in {l \in Listings : Len(l) <= MaxIDFiles}, r \in Requests,
          cpus \in CpuCounts :
        Dispatch("get_ID", listing, ID5, None, NoList, r,
                 PoolSize(DefaultWorkers, cpus))

CallGetIDMissingFolder ==
    /\ pc = "idle"
    /\ \E r \in Requests : ListdirRaises("get_ID", ID5, None, NoList, r)

\* save_ID_event loads the table with the default arguments of the loader.
CallSaveID ==
    /\ pc = "idle"
    /\ \E listing \in {l \in Listings : Len(l) <= MaxIDFiles}, cpus \in CpuCounts :
        Dispatch("save_ID_event", listing, ID4, None, NoList, NoRequest,
                 PoolSize(DefaultWorkers, cpus))

\* The tasks the workers hold: the pool hands the tasks out in the order of
\* the files, one per free worker.
Running ==
    {i \in DOMAIN data_list :
        /\ ~data_list[i].done
        /\ Cardinality({j \in 1..(i - 1) : ~data_list[j].done}) < num_workers}

\* A worker finishes the task of file i; pool.imap keeps the results in the
\* order of the files whatever the order the tasks finish in.
LoadTask(i) ==
    /\ pc = "loading"
    /\ i \in Running
    /\ completed' = completed \o <<i>>
    /\ data_list' = [data_list EXCEPT
                        ![i] = [done  |-> TRUE,
                                entry |-> load_variables(file_list[i], variable_names)]]
    /\ log' = log \o LoadLog(file_list[i])
    /\ UNCHANGED <<pc, caller, folder_ok, discovered, num_files, file_selected,
                   variable_names, file_list, data_dict, req, mask, masked,
                   num_workers,
                   id_file, event_files>>

AllDone == \A i \in DOMAIN data_list : data_list[i].done

\* Variant of the collection of the results (pool.imap_unordered): the
\* results in the order the tasks finished in.
EntriesAsCompleted == [k \in DOMAIN completed |-> data_list[completed[k]].entry]

\* list(pool.imap(...)): the results in the order of the files.
Entries == [i \in DOMAIN data_list |-> data_list[i].entry]

\* The with block of the pool ends: no worker is left.
PoolClosed ==
    /\ num_workers' = 0
    /\ completed' = <<>>

\* Lines 45-67: every task has finished, the pool is closed, the table is built
\* and returned.
ReturnTable ==
    /\ pc = "loading"
    /\ caller = "load"
    /\ AllDone
    /\ PoolClosed
    /\ data_dict' = Aggregate(Entries, variable_names)
    /\ log' = log \o ConversionLog(Entries, variable_names)
    /\ pc' = "returned"
    /\ UNCHANGED <<caller, folder_ok, discovered, num_files, file_selected,
                   variable_names, file_list, data_list, req, mask, masked,
                   id_file, event_files>>

\* get_ID: the table is built and filtered.
ReturnID ==
    /\ pc = "loading"
    /\ caller = "get_ID"
    /\ AllDone
    /\ PoolClosed
    /\ data_dict' = Aggregate(Entries, variable_names)
    /\ mask' = IDMask(data_dict', req)
    /\ masked' \in get_ID(data_dict', req)
    /\ log' = log \o ConversionLog(Entries, variable_names)
    /\ pc' = "returned"
    /\ UNCHANGED <<caller, folder_ok, discovered, num_files, file_selected,
                   variable_names, file_list, data_list, req,
                   id_file, event_files>>

\* create_masked_dict on the table a call of load_variables_from_npz returned.
Filter ==
    /\ pc = "returned"
    /\ caller = "load"
    /\ \E r \in Requests :
        /\ req' = r
        /\ log' = log \o UsageLog(r)
        /\ mask' = IF TooManyFlavors(r) THEN NoMask ELSE MaskOf(data_dict, r)
        /\ masked' \in create_masked_dict(data_dict, r)
        /\ pc' = "filtered"
        /\ UNCHANGED <<caller, folder_ok, discovered, num_files, file_selected,
                       variable_names, file_list, data_list, data_dict,
                       num_workers, completed,
                   id_file, event_files>>

\* save_ID_event: the table is built, the events are classified and the file
\* is written.
ReturnSave ==
    /\ pc = "loading"
    /\ caller = "save_ID_event"
    /\ AllDone
    /\ PoolClosed
    /\ data_dict' = Aggregate(Entries, variable_names)
    /\ log' = log \o ConversionLog(Entries, variable_names)
    /\ \E out \in save_ID_event(data_dict') :
        /\ id_file' = out.file
        /\ pc' = IF out.outcome = "written" THEN "saved" ELSE "save_raised"
    /\ UNCHANGED <<caller, folder_ok, discovered, num_files, file_selected,
                   variable_names, file_list, data_list, req, mask, masked,
                   event_files>>

\* get_event_ID on the file save_ID_event left; open() raises if there is none.
GetEventID ==
    /\ pc \in {"saved", "save_raised"}
    /\ \E r \in Requests :
        /\ req' = r
        /\ IF id_file.exists
           THEN /\ event_files' = get_event_ID(r, id_file.lines)
                /\ pc' = "looked_up"
           ELSE /\ event_files' = <<>>
                /\ pc' = "lookup_raised"
        /\ UNCHANGED <<caller, folder_ok, discovered, num_files, file_selected,
                       variable_names, file_list, data_list, data_dict, log,
                       mask, masked, num_workers, completed, id_file>>

Next ==
    \/ CallLoad
    \/ CallLoadSelected
    \/ CallLoadMissingFolder
    \/ CallGetID
    \/ CallGetIDMissingFolder
    \/ \E i \in 1..(MaxFiles + 1) : LoadTask(i)
    \/ ReturnTable
    \/ ReturnID
    \/ Filter
    \/ CallSaveID
    \/ ReturnSave
    \/ GetEventID

Spec == Init /\ [][Next]_vars

----------------------------------------------------------------------------
(* Properties of load_variables_from_npz *)

Returned == pc \in {"returned", "filtered"}

LoadReturned == Returned /\ caller = "load"

\* C1: the table a call returns has exactly the requested names as keys,
\* whatever the files are (none, unreadable, lacking fields).
C1_KeysAreRequested ==
    Returned => DOMAIN data_dict = Range(variable_names)

\* A table built from an unreadable file, a file lacking a requested field
\* and a complete file.
C1_Witness ==
    /\ LoadReturned
    /\ {"C", "M", "E"} \subseteq Range(file_list)
    /\ variable_names = ID4
    /\ DOMAIN data_dict = Range(ID4)

\* A table built from no file at all.
C1_WitnessNoFile ==
    /\ LoadReturned
    /\ file_list = <<>>
    /\ DOMAIN data_dict = Range(variable_names)

\* The files of the list that can be read, in the order of the list.
Survivors == SelectSeq(file_list, LAMBDA f : f \in Readable)

\* C2: a file that fails to load is reported with its path and yields None for
\* every requested field; the batch goes on, and the table is the one the
\* list without the failing files gives.
C2_FailureIsSkipped ==
    /\ folder_ok => pc # "raised"
    /\ \A i \in DOMAIN data_list :
          (data_list[i].done /\ file_list[i] \notin Readable) =>
              /\ \A v \in Range(variable_names) : ~data_list[i].entry[v].present
              /\ \E k \in DOMAIN log :
                    log[k] = [msg |-> "Error loading", arg |-> file_list[i]]
    /\ Returned =>
          data_dict = Aggregate([i \in DOMAIN Survivors |->
                                    ReadFields(Survivors[i], variable_names)],
                                variable_names)

\* A returned table of a list that holds the unreadable file between two
\* readable ones.
C2_Witness ==
    /\ LoadReturned
    /\ Len(file_list) = 3
    /\ file_list[2] = "C"
    /\ file_list[1] \in Readable
    /\ file_list[3] \in Readable
    /\ ColumnLen(data_dict[variable_names[1]]) >= 1

\* The files of the list that were read and hold field v.
Holders(v) ==
    {i \in DOMAIN file_list :
        file_list[i] \in Readable /\ v \in DOMAIN Archive[file_list[i]]}

\* C3: the column of a field has one entry per loaded file that holds the
\* field; a file lacking one field still counts for the others.
C3_ColumnCountsHolders ==
    Returned =>
        \A v \in Range(variable_names) :
            ColumnLen(data_dict[v]) = Cardinality(Holders(v))

\* Columns of different lengths: M lacks in_neutrino_pdg and counts for is_cc.
C3_Witness ==
    /\ LoadReturned
    /\ variable_names = ID4
    /\ "M" \in Range(file_list)
    /\ ColumnLen(data_dict["is_cc"]) = 3
    /\ ColumnLen(data_dict["in_neutrino_pdg"]) = 2

\* C4: with num_files = k and no explicit list, a scan that finds more than k
\* files dispatches the tasks of the first k files of the scan, in its order.
C4_LimitTakesFirstK ==
    (/\ pc # "idle"
     /\ folder_ok
     /\ file_selected.is_none
     /\ ~num_files.is_none
     /\ Len(discovered) > num_files.value) =>
        /\ Len(data_list) <= num_files.value
        /\ Len(data_list) = Len(file_list)
        /\ file_list = SubSeq(discovered, 1, num_files.value)
        /\ \A i \in DOMAIN data_list :
              data_list[i].done =>
                  data_list[i].entry = load_variables(discovered[i], variable_names)

\* Three files found, a limit of two, both tasks finished.
C4_Witness ==
    /\ pc = "loading"
    /\ file_selected.is_none
    /\ num_files = Some(2)
    /\ Len(discovered) = 3
    /\ Len(file_list) = 2
    /\ AllDone

\* Files found and a limit of zero: no task.
C4_WitnessZero ==
    /\ pc = "returned"
    /\ file_selected.is_none
    /\ num_files = Some(0)
    /\ Len(discovered) >= 1
    /\ file_list = <<>>

\* C5: an explicit file list makes the call independent of the folder: the
\* call does not fail on the folder and loads the files of the list, in its
\* order, without the limit.
C5_ExplicitListOverridesFolder ==
    (pc # "idle" /\ ~file_selected.is_none) =>
        /\ pc # "raised"
        /\ file_list = file_selected.value

----------------------------------------------------------------------------
(* Properties of create_masked_dict and get_ID *)

Filtered == pc = "filtered"

FlagSum(r) == r.is_nu_e + r.is_nu_mu + r.is_nu_tau

\* The value and the entry of row p of a column.
RowVal(col, p) == IF col.kind = "Uniform" THEN col.data[p] ELSE col.items[p].data[1]

RowOut(col, p) == IF col.kind = "Uniform" THEN col.data[p] ELSE col.items[p]

Rows(col) == IF col.kind = "Uniform" THEN Len(col.data) ELSE Len(col.items)

OutEntries(res) == IF res.kind = "Uniform" THEN res.data ELSE res.items

\* The columns have rows in common: one shape, one kind, single values.
AlignedOn(table, keys) ==
    /\ keys \subseteq DOMAIN table
    /\ \A k1, k2 \in keys :
          table[k1].shape = table[k2].shape /\ table[k1].kind = table[k2].kind
    /\ \A k \in keys : \A i \in DOMAIN table[k].items :
          Len(table[k].items[i].data) = 1

\* The reference condition of a request on row p of the raw table.
RefCondition(table, r, p) ==
    IF r.is_cc = 1
    THEN /\ RowVal(table["is_cc"], p) = 1
         /\ r.is_nu_e = 1   => RowVal(table["in_neutrino_pdg"], p) \in {12, -12}
         /\ r.is_nu_mu = 1  => RowVal(table["in_neutrino_pdg"], p) \in {14, -14}
         /\ r.is_nu_tau = 1 => RowVal(table["in_neutrino_pdg"], p) \in {16, -16}
    ELSE RowVal(table["is_cc"], p) = 0

RefKeys(r) ==
    IF r.is_cc = 1 /\ FlagSum(r) > 0
    THEN {"run_number", "event_id", "is_cc", "in_neutrino_pdg"}
    ELSE {"run_number", "event_id", "is_cc"}

\* The entries of the first n rows of col that satisfy the reference condition.
RECURSIVE RefRows(_, _, _, _)
RefRows(table, r, col, n) ==
    IF n = 0 THEN <<>>
    ELSE RefRows(table, r, col, n - 1)
         \o (IF RefCondition(table, r, n) THEN <<RowOut(col, n)>> ELSE <<>>)

\* C6: with at most one flavor flag, the run_number and event_id returned are
\* those of the rows the reference condition selects in the raw table.
C6_MaskIsReference ==
    (Filtered /\ FlagSum(req) <= 1 /\ AlignedOn(data_dict, RefKeys(req))) =>
        /\ masked.outcome = "dict"
        /\ OutEntries(masked.run_number) =
              RefRows(data_dict, req, data_dict["run_number"],
                      Rows(data_dict["run_number"]))
        /\ OutEntries(masked.event_id) =
              RefRows(data_dict, req, data_dict["event_id"],
                      Rows(data_dict["event_id"]))

\* Charged-current electron request on a table with an anti-electron-neutrino
\* charged-current row and an electron-neutrino neutral-current row.
C6_Witness ==
    /\ Filtered
    /\ req = [is_cc |-> 1, is_nu_e |-> 1, is_nu_mu |-> 0, is_nu_tau |-> 0]
    /\ file_list = <<"N", "E">>
    /\ variable_names = ID4
    /\ masked.outcome = "dict"
    /\ masked.run_number.data = <<2>>
    /\ masked.event_id.data = <<1>>

\* C7: more than one flavor flag: a usage message, an empty result, no
\* exception, the table as it was.
C7_TwoFlavorsEmpty ==
    (Filtered /\ FlagSum(req) > 1) =>
        /\ masked = EmptyDict
        /\ \E k \in DOMAIN log :
              log[k].msg = "Error: Only one neutrino type can be selected."
        /\ data_dict = Aggregate(Entries, variable_names)

\* Two flavors asked of a table whose is_cc column cannot be compared.
C7_Witness ==
    /\ Filtered
    /\ req = [is_cc |-> 1, is_nu_e |-> 1, is_nu_mu |-> 1, is_nu_tau |-> 0]
    /\ variable_names = ID4
    /\ data_dict["is_cc"].kind = "Object"
    /\ Len(data_dict["is_cc"].items) = 2
    /\ masked = EmptyDict

\* The rows a computed mask selects.
SelectedRows(m) == {p \in DOMAIN m.data : m.data[p]}

\* C8: the rows a charged-current request returns have is_cc = 1, those a
\* neutral-current request returns have is_cc = 0, and no row is returned to
\* both.
C8_CurrentsExclusive ==
    (/\ Filtered
     /\ masked.outcome = "dict"
     /\ mask.ok
     /\ mask.shape = data_dict["is_cc"].shape) =>
        /\ \A p \in SelectedRows(mask) :
              RowVal(data_dict["is_cc"], p) = (IF req.is_cc = 1 THEN 1 ELSE 0)
        /\ \A r \in Requests :
              (r.is_cc # req.is_cc /\ FlagSum(r) <= 1 /\ MaskOf(data_dict, r).ok) =>
                  SelectedRows(mask) \cap SelectedRows(MaskOf(data_dict, r)) = {}

\* A charged-current tau request that returns a row of a table which also
\* holds a neutral-current row.
C8_Witness ==
    /\ Filtered
    /\ req = [is_cc |-> 1, is_nu_e |-> 0, is_nu_mu |-> 0, is_nu_tau |-> 1]
    /\ file_list = <<"A", "D">>
    /\ variable_names = ID4
    /\ masked.outcome = "dict"
    /\ SelectedRows(mask) = {3}

\* The scenario: a scan finds the files A, B and C, in some order, and the
\* four identification fields are asked for.
Scenario ==
    /\ caller = "load"
    /\ folder_ok
    /\ Len(discovered) = 3
    /\ Range(discovered) = {"A", "B", "C"}
    /\ variable_names = ID4
    /\ num_files.is_none
    /\ file_selected.is_none

ChargedMu == [is_cc |-> 1, is_nu_e |-> 0, is_nu_mu |-> 1, is_nu_tau |-> 0]

FailureOfC == <<[msg |-> "Error loading", arg |-> "C"]>>

\* The failures the load tasks reported.
LoadErrors == SelectSeq(log, LAMBDA m : m.msg = "Error loading")

\* C9 as stated: the table has 3 rows per field (2 of A, 1 of B), the failure
\* of C is reported, and the charged-current muon filter returns the 2 rows
\* of A.
C9_ScenarioThreeRows ==
    Scenario =>
        /\ Returned =>
              /\ \A v \in Range(ID4) : ColumnLen(data_dict[v]) = 3
              /\ LoadErrors = FailureOfC
        /\ (Filtered /\ req = ChargedMu) =>
              /\ masked.outcome = "dict"
              /\ OutEntries(masked.run_number) = <<1, 1>>
              /\ OutEntries(masked.event_id) = <<1, 2>>

\* C9 (amended): the table has 2 entries per field, the array of A and the
\* array of B in the order of the scan, kept as an object column; the failure
\* of C is reported; the charged-current muon filter does not return the rows
\* of A: it raises, or selects nothing.
C9_ScenarioOneEntryPerFile ==
    Scenario =>
        /\ Returned =>
              /\ \A v \in Range(ID4) :
                    /\ ColumnLen(data_dict[v]) = 2
                    /\ data_dict[v].kind = "Object"
                    /\ data_dict[v].items =
                          [i \in 1..2 |-> Archive[Survivors[i]][v]]
              /\ LoadErrors = FailureOfC
        /\ (Filtered /\ req = ChargedMu) =>
              /\ masked \in {Raised, SelectsNothing}
              /\ ~mask.ok

\* The scenario, loaded and filtered for charged-current muon neutrinos.
C9_Witness ==
    /\ Scenario
    /\ Filtered
    /\ req = ChargedMu
    /\ discovered = <<"A", "B", "C">>
    /\ data_dict["is_cc"].items = <<Vector(<<1, 1>>), Vector(<<0>>)>>
    /\ masked = Raised

\* The condition the documentation of get_ID gives, on row p of the table:
\* the requested current and a flavor whose flag is 1.
RefIDCondition(table, r, p) ==
    /\ RowVal(table["is_cc"], p) = r.is_cc
    /\ \/ r.is_nu_e = 1   /\ RowVal(table["in_neutrino_pdg"], p) \in {12, -12}
       \/ r.is_nu_mu = 1  /\ RowVal(table["in_neutrino_pdg"], p) \in {14, -14}
       \/ r.is_nu_tau = 1 /\ RowVal(table["in_neutrino_pdg"], p) \in {16, -16}

RECURSIVE RefIDRows(_, _, _, _)
RefIDRows(table, r, col, n) ==
    IF n = 0 THEN <<>>
    ELSE RefIDRows(table, r, col, n - 1)
         \o (IF RefIDCondition(table, r, n) THEN <<RowOut(col, n)>> ELSE <<>>)

\* C10: get_ID returns the run_number and event_id of the events of the
\* requested current whose flavor is one of the flagged flavors; no event of
\* an unflagged flavor is returned.
C10_GetIDHonoursFlags ==
    (/\ pc = "returned"
     /\ caller = "get_ID"
     /\ FlagSum(req) >= 1
     /\ AlignedOn(data_dict, Range(ID4))) =>
        /\ masked.outcome = "dict"
        /\ OutEntries(masked.run_number) =
              RefIDRows(data_dict, req, data_dict["run_number"],
                        Rows(data_dict["run_number"]))
        /\ OutEntries(masked.event_id) =
              RefIDRows(data_dict, req, data_dict["event_id"],
                        Rows(data_dict["event_id"]))

----------------------------------------------------------------------------
(* Properties of the worker pool *)

\* The arrays of field v held by the readable files of a list, in its order.
RECURSIVE FileColumn(_, _)
FileColumn(files, v) ==
    IF files = <<>> THEN <<>>
    ELSE (IF Head(files) \in Readable /\ v \in DOMAIN Archive[Head(files)]
          THEN <<Archive[Head(files)][v]>> ELSE <<>>)
         \o FileColumn(Tail(files), v)

\* The table of a file list: a function of the list and the names alone.
TableInFileOrder ==
    [v \in Range(variable_names) |-> Normalize(FileColumn(file_list, v))]

\* C11: the table is built only once every dispatched task has finished, and
\* it lists each field's arrays in the order of the files, whatever the order
\* the tasks finished in and whatever the pool size: it is a function of the
\* file list and the names alone.
C11_TableInDispatchOrder ==
    /\ pc = "loading" => data_dict = <<>>
    /\ Returned =>
          /\ Len(data_list) = Len(file_list)
          /\ \A i \in DOMAIN file_list : data_list[i].done
          /\ data_dict = TableInFileOrder

\* Three tasks of different files on two workers, all finished, the first
\* one last: the call is about to return.
C11_Witness ==
    /\ pc = "loading"
    /\ caller = "load"
    /\ variable_names = ID4
    /\ file_list = <<"E", "N", "M">>
    /\ num_workers = 2
    /\ completed = <<2, 3, 1>>
    /\ AllDone

----------------------------------------------------------------------------
(* Properties of the conversion of the columns *)

\* C12: a column of arrays of one shape is a float32 array of that shape per
\* entry; a column of arrays of different shapes is an object array with one
\* element per contributing file; a column no file contributed to is an
\* empty array; the entries are those of the files, in their order.
C12_NormalizationByShape ==
    Returned =>
        \A v \in Range(variable_names) :
            LET arrs == FileColumn(file_list, v)
                col  == data_dict[v]
            IN  /\ ColumnLen(col) = Len(arrs)
                /\ Cardinality(Shapes(arrs)) = 1 =>
                      /\ col.kind = "Uniform"
                      /\ col.shape = <<Len(arrs)>> \o arrs[1].shape
                      /\ Len(col.data) = Len(arrs) * Prod(arrs[1].shape)
                      /\ \A i \in DOMAIN arrs :
                            \A k \in DOMAIN arrs[i].data :
                                col.data[(i - 1) * Prod(arrs[1].shape) + k] =
                                    ToFloat32(arrs[i].data[k])
                /\ Cardinality(Shapes(arrs)) > 1 =>
                      /\ col.kind = "Object"
                      /\ col.items = arrs
                /\ arrs = <<>> =>
                      /\ col.kind = "Object"
                      /\ col.shape = <<0>>
                      /\ col.items = <<>>

----------------------------------------------------------------------------
(* Properties of the file id_events.txt *)

\* The names of the events save_ID_event classified into a category, in the
\* order of the table.
NamesOf(cat) ==
    LET sel == Classified(data_dict)[cat]
    IN  [i \in 1..SelLen(sel.run) |->
            FileName(ElemAt(sel.run, i), ElemAt(sel.event, i))]

\* C13: after save_ID_event wrote the file, every row under the header has
\* eight columns, and get_event_ID for a category returns the names of the
\* events save_ID_event classified into that category, in the order written.
C13_LookupRoundTrip ==
    (pc = "looked_up" /\ ~Ambiguous(data_dict, {"is_cc", "in_neutrino_pdg"})) =>
        /\ \A k \in 2..Len(id_file.lines) : Len(id_file.lines[k]) = 8
        /\ event_files = NamesOf(neutrino_type(req))

====
